---- MODULE Spec2Model ----
(***************************************************************************)
(* Tour scheduling service: TourService (src/app/service.py) over          *)
(* InMemoryTourStorage (src/app/storage.py) and the domain records of      *)
(* src/app/models.py.                                                      *)
(*                                                                         *)
(* Request threads call create_tour / cancel_tour concurrently.  The       *)
(* storage's RLock is the only synchronisation: a with block on it is one  *)
(* step of the model.  The wall clock                                      *)
(* (datetime.now(timezone.utc)) is the variable clock; it advances by      *)
(* Tick between any two steps of any thread.  A UTC day is TicksPerDay     *)
(* ticks long and timedelta(hours=24) is TicksPerDay ticks.                *)
(***************************************************************************)
EXTENDS Integers, Sequences, FiniteSets, TLC

\* ------------------------------------------------------------------ bounds
MaxTime == 2
TicksPerDay == 2
MaxTours == 2

\* ------------------------------------------------------- program constants
DailyLimit == 3

Threads == {1, 2}

\* Optional[str] idempotency key: None, or a string (possibly empty)
NoKey == [some |-> FALSE, v |-> ""]
Key(s) == [some |-> TRUE, v |-> s]

\* a datetime argument: naive (tzinfo is None) or aware with a UTC offset
Naive(t) == [aware |-> FALSE, local |-> t, offset |-> 0]
Aware(t, o) == [aware |-> TRUE, local |-> t, offset |-> o]

\* Optional[date] date_filter: None, or the UTC day of number d
NoDate == [some |-> FALSE, v |-> 0]
Date(d) == [some |-> TRUE, v |-> d]

\* the sort string: field, or "-" followed by field
Sort(dash, field) == [dash |-> dash, field |-> field]

\* the arguments of list_tours
Query(p, d, s, page, page_size) ==
  [property_id |-> p, date_filter |-> d, sort |-> s, page |-> page,
   page_size |-> page_size]

NoQuery == Query(NoKey, NoDate, Sort(FALSE, ""), 1, 1)

Req(p, c, s, e, k) ==
  [property_id |-> p, customer_id |-> c, start_at |-> s, end_at |-> e,
   idempotency_key |-> k]

\* property_id and customer_id are arbitrary non-empty strings (schemas.py
\* 12-13): "a", "a|b", "c", "b|c".  Instants are small integers; Aware(2, 1)
\* is the instant 1 written with another UTC offset.

\* bookings without a usable key on one property: an interval, and the
\* interval that touches its end, written in another offset and with the
\* empty key
Requests ==
  { Req("a", "c", Aware(0, 0), Aware(1, 0), NoKey),
    Req("a", "c", Aware(2, 1), Aware(2, 0), Key("")) }

\* bookings that all carry the key "k1": a request, the same request with its
\* start written in another offset, a request for another property and
\* customer, and a request for another interval
IdemRequests ==
  { Req("a|b", "c", Aware(0, 0), Aware(2, 0), Key("k1")),
    Req("a|b", "c", Aware(1, 1), Aware(2, 0), Key("k1")),
    Req("a", "b|c", Aware(0, 0), Aware(2, 0), Key("k1")),
    Req("a|b", "c", Aware(1, 0), Aware(2, 0), Key("k1")) }

\* bookings of one customer on three free slots (one of them with a key), the
\* key reused for another interval, and a naive timestamp
QuotaRequests ==
  { Req("a", "c", Aware(0, 0), Aware(1, 0), NoKey),
    Req("a", "c", Aware(1, 0), Aware(2, 0), NoKey),
    Req("a|b", "c", Aware(0, 0), Aware(2, 0), Key("k1")),
    Req("a|b", "c", Aware(1, 0), Aware(2, 0), Key("k1")),
    Req("a", "c", Naive(0), Aware(1, 0), NoKey) }

\* bookings of one customer on four free slots
SlotRequests ==
  { Req("a", "c", Aware(0, 0), Aware(1, 0), NoKey),
    Req("a", "c", Aware(1, 0), Aware(2, 0), NoKey),
    Req("a|b", "c", Aware(0, 0), Aware(1, 0), NoKey),
    Req("a|b", "c", Aware(1, 0), Aware(2, 0), NoKey) }

\* a keyed booking of a whole interval and keyless bookings of its two halves
ReplayRequests ==
  { Req("a|b", "c", Aware(0, 0), Aware(2, 0), Key("k1")),
    Req("a|b", "c", Aware(0, 0), Aware(1, 0), NoKey),
    Req("a|b", "c", Aware(1, 0), Aware(2, 0), NoKey) }

\* keyless bookings on one property (an interval, its two halves, which touch)
\* and on another property
ConflictRequests ==
  { Req("a", "c", Aware(0, 0), Aware(2, 0), NoKey),
    Req("a", "c", Aware(0, 0), Aware(1, 0), NoKey),
    Req("a", "c", Aware(1, 0), Aware(2, 0), NoKey),
    Req("a|b", "c", Aware(0, 0), Aware(2, 0), NoKey) }

\* keyless bookings around the change from day 0 to day 1: inside day 0,
\* across the change, up to the change and from the change on
ListRequests ==
  { Req("a", "c", Aware(0, 0), Aware(1, 0), NoKey),
    Req("a", "c", Aware(TicksPerDay - 1, 0), Aware(TicksPerDay + 1, 0), NoKey),
    Req("a|b", "c", Aware(0, 0), Aware(TicksPerDay, 0), NoKey),
    Req("a|b", "c", Aware(TicksPerDay, 0), Aware(TicksPerDay + 1, 0), NoKey) }

\* list_tours calls: page >= 1 and page_size >= 1 (schemas.py 58-59)
ListQueries ==
  { Query(NoKey, Date(1), Sort(FALSE, "start_at"), 1, 2),
    Query(NoKey, Date(1), Sort(TRUE, "start_at"), 1, 1),
    Query(Key("a"), Date(0), Sort(FALSE, "start_at"), 2, 1),
    Query(Key(""), Date(0), Sort(TRUE, "start_at"), 1, 2),
    Query(NoKey, Date(0), Sort(FALSE, "created_at"), 1, 1),
    Query(Key("a|b"), NoDate, Sort(FALSE, "start_at"), 1, 2) }

\* one keyed booking
LockRequests == { Req("a", "c", Aware(0, 0), Aware(1, 0), Key("k1")) }

\* a keyed booking and a keyless one of the same customer and property
BusyRequests ==
  { Req("a", "c", Aware(0, 0), Aware(1, 0), Key("k1")),
    Req("a", "c", Aware(1, 0), Aware(2, 0), NoKey) }

LockQuery == Query(NoKey, NoDate, Sort(FALSE, "start_at"), 1, 2)

CustomerIds == {"c", "b|c"}

\* ------------------------------------------------------------ pure helpers
\* models.py TourStatus
BOOKED == "BOOKED"
CANCELLED == "CANCELLED"

\* datetime.astimezone(timezone.utc): the instant, expressed in UTC
AsUtc(dt) == dt.local - dt.offset

\* service.py ensure_utc: the field is rejected when the value is naive
ensure_utc_ok(dt) == dt.aware

\* datetime.isoformat() of a UTC-normalised instant
IsoFormat(t) == ToString(t) \o "+00:00"

\* datetime.date(): the UTC calendar day of an instant
DateOf(t) == t \div TicksPerDay

\* now + timedelta(hours=24)
Plus24h(t) == t + TicksPerDay

\* Python truthiness of Optional[str]: None and "" are falsy
Truthy(k) == k.some /\ k.v # ""

\* variant of overlaps: b starts strictly inside a
overlapsStartInside(start_a, end_a, start_b, end_b) ==
  start_a < start_b /\ start_b < end_a

\* variant of overlaps: b ends strictly inside a
overlapsEndInside(start_a, end_a, start_b, end_b) ==
  start_a < end_b /\ end_b < end_a

\* service.py overlaps
overlaps(start_a, end_a, start_b, end_b) ==
  start_a < end_b /\ start_b < end_a

\* service.py TourService._fingerprint
_fingerprint(property_id, customer_id, start_at, end_at) ==
  property_id \o "|" \o customer_id \o "|" \o IsoFormat(start_at)
              \o "|" \o IsoFormat(end_at)

\* models.py Tour, as built by create_tour (service.py 66-75)
NewTour(id, property_id, customer_id, start_at, end_at, now) ==
  [id |-> id, property_id |-> property_id, customer_id |-> customer_id,
   start_at |-> start_at, end_at |-> end_at, status |-> BOOKED,
   created_at |-> now, updated_at |-> now]

NoTour == NewTour(0, "", "", 0, 0, 0)

\* variant of Tour.cancel that flips the status
cancelToggle(tour, now) ==
  [tour EXCEPT !.status = IF tour.status = CANCELLED THEN BOOKED ELSE CANCELLED,
               !.updated_at = now]

\* variant of Tour.cancel without the status test
cancelAlwaysTouch(tour, now) ==
  [tour EXCEPT !.status = CANCELLED, !.updated_at = now]

\* models.py Tour.cancel
cancel(tour, now) ==
  IF tour.status # CANCELLED
  THEN [tour EXCEPT !.status = CANCELLED, !.updated_at = now]
  ELSE tour

\* -------------------------------------------------------------------- state
VARIABLES
  clock,        \* datetime.now(timezone.utc)
  _tours,       \* InMemoryTourStorage._tours, in insertion order; index = id
  _idempotency, \* InMemoryTourStorage._idempotency: key string -> record
  _rate_limits, \* InMemoryTourStorage._rate_limits: <<customer, day>> -> count
  th,           \* per thread: position in its call, arguments and locals
  last,         \* the call that completed most recently, with its outcome
  first_call,   \* per key string: the first successful create that used it
  _lock         \* InMemoryTourStorage._lock: the RLock's owner and depth

vars == <<clock, _tours, _idempotency, _rate_limits, th, last, first_call, _lock>>
store == <<_tours, _idempotency, _rate_limits>>


Idle ==
  [pc |-> "idle", op |-> "none",
   property_id |-> "", customer_id |-> "", start_at |-> 0, end_at |-> 0,
   key |-> NoKey, now |-> 0, tour_id |-> 0, seen |-> "", query |-> NoQuery]

\* threading.RLock: no owner, or an owner and the depth of its acquisitions
Unlocked == [owner |-> 0, count |-> 0]

NoCall ==
  [op |-> "none", key |-> NoKey, taken |-> FALSE,
   code |-> "", detail |-> "", created |-> FALSE, ret |-> NoTour, previous_status |-> "", peers |-> {},
   raced |-> FALSE, query |-> NoQuery, items |-> <<>>, total |-> 0]

Init ==
  /\ clock = 0
  /\ _tours = <<>>
  /\ _idempotency = <<>>
  /\ _rate_limits = <<>>
  /\ th = [t \in Threads |-> Idle]
  /\ last = NoCall
  /\ first_call = <<>>
  /\ _lock = Unlocked

\* ------------------------------------------------------------ store methods
Without(f, k) == [x \in DOMAIN f \ {k} |-> f[x]]
With(f, k, v) == [x \in DOMAIN f \cup {k} |-> IF x = k THEN v ELSE f[x]]

\* variant of the expiry test that compares created_at
ExpiredByCreatedAt(rec, now) == rec.created_at <= now

\* storage.py get_idempotency_record: expired records are deleted and absent
Expired(rec, now) == rec.expires_at <= now

\* variant of get_idempotency_record that removes the record it reads
IdempotencyPopOnGet(idem, key, now) == Without(idem, key)

IdempotencyAfterGet(idem, key, now) ==
  IF key \in DOMAIN idem /\ Expired(idem[key], now) THEN Without(idem, key) ELSE idem

HasLiveRecord(idem, key, now) ==
  key \in DOMAIN idem /\ ~Expired(idem[key], now)

\* storage.py cleanup_rate_limits: drop the counters of days before now.date()
cleanup_rate_limits(rl, now) ==
  [k \in {x \in DOMAIN rl : x[2] >= DateOf(now)} |-> rl[k]]

\* variant of _get_or_create_rate_limit that counts the attempt
_get_or_create_counting(rl, customer_id, day_key) ==
  IF <<customer_id, day_key>> \in DOMAIN rl THEN rl
  ELSE With(rl, <<customer_id, day_key>>, 1)

\* service.py _get_or_create_rate_limit: a missing counter is stored with count 0
_get_or_create_rate_limit(rl, customer_id, day_key) ==
  IF <<customer_id, day_key>> \in DOMAIN rl THEN rl
  ELSE With(rl, <<customer_id, day_key>>, 0)

\* variant of the quota test with > for >=
QuotaReachedAbove(count) == count > DailyLimit

\* service.py 61: the quota test on the counter
QuotaReached(count) == count >= DailyLimit

\* variant of _ensure_no_overlap without the status test
HasOverlapAnyStatus(tours, property_id, start_at, end_at) ==
  \E i \in DOMAIN tours :
    /\ tours[i].property_id = property_id
    /\ overlaps(tours[i].start_at, tours[i].end_at, start_at, end_at)

\* service.py _ensure_no_overlap: TRUE when the scan raises ConflictError
HasOverlap(tours, property_id, start_at, end_at) ==
  \E i \in DOMAIN tours :
    /\ tours[i].property_id = property_id
    /\ tours[i].status = BOOKED
    /\ overlaps(tours[i].start_at, tours[i].end_at, start_at, end_at)

\* ------------------------------------------------------- calls and outcomes
\* a thread is in flight from the start of its call (for create_tour, the
\* reading of the clock at service.py 43) until the call returns or raises
InFlight(t) == th[t].pc # "idle"

\* request threads are interchangeable: a new call is served by the free
\* thread of lowest number
Serves(t) == ~InFlight(t) /\ \A u \in Threads : u < t => InFlight(u)

\* the outcome of thread t's call: the error code and detail raised, or OK
\* with the values returned; peers are the threads with a call in flight
\* then; raced says that this call was itself in flight when the call that
\* completed before it created a tour; taken says that a BOOKED tour of the
\* property overlapped the requested interval when the with block was entered
Outcome(t, call, code, detail, created, ret, previous_status) ==
  [op |-> call.op, key |-> call.key,
   taken |-> call.op = "create" /\ call.pc = "create_lock"
             /\ HasOverlap(_tours, call.property_id, call.start_at, call.end_at),
   code |-> code, detail |-> detail, created |-> created, ret |-> ret, previous_status |-> previous_status,
   peers |-> {u \in Threads \ {t} : InFlight(u)},
   raced |-> last.op = "create" /\ last.created /\ t \in last.peers,
   query |-> NoQuery, items |-> <<>>, total |-> 0]

Fp(call) ==
  _fingerprint(call.property_id, call.customer_id, call.start_at, call.end_at)

\* ------------------------------------------------------------- create_tour
\* service.py 38-44: validation, now, fingerprint (no storage access)
CreateBegin(t, req) ==
  /\ Serves(t)
  /\ LET base == [Idle EXCEPT !.op = "create",
                              !.property_id = req.property_id,
                              !.customer_id = req.customer_id,
                              !.key = req.idempotency_key]
         bad(field) == Outcome(t, base, "BAD_REQUEST", field, FALSE, NoTour, "")
     IN IF ~ensure_utc_ok(req.start_at)
        THEN last' = bad("start_at") /\ th' = th
        ELSE IF ~ensure_utc_ok(req.end_at)
        THEN last' = bad("end_at") /\ th' = th
        ELSE IF AsUtc(req.start_at) >= AsUtc(req.end_at)
        THEN last' = bad("end_at") /\ th' = th
        ELSE /\ th' = [th EXCEPT ![t] =
                    [base EXCEPT !.pc = "create_lock",
                                 !.start_at = AsUtc(req.start_at),
                                 !.end_at = AsUtc(req.end_at),
                                 !.now = clock]]
             /\ last' = last
  /\ UNCHANGED <<clock, store, first_call, _lock>>

\* leaving the with block by return or raise
Leave(t, code, detail, created, ret) ==
  /\ last' = Outcome(t, th[t], code, detail, created, ret, "")
  /\ th' = [th EXCEPT ![t] = Idle]

\* variant of the record that names a newly generated id
NewRecordFreshId(call, tour_id) ==
  [key |-> call.key.v, tour_id |-> tour_id + 1, fingerprint |-> Fp(call),
   created_at |-> call.now, expires_at |-> Plus24h(call.now)]

\* variant of the record without the 24 hours added
NewRecordNoTtl(call, tour_id) ==
  [key |-> call.key.v, tour_id |-> tour_id, fingerprint |-> Fp(call),
   created_at |-> call.now, expires_at |-> call.now]

\* service.py 81-90: the record saved for a key
NewRecord(call, tour_id) ==
  [key |-> call.key.v, tour_id |-> tour_id, fingerprint |-> Fp(call),
   created_at |-> call.now, expires_at |-> Plus24h(call.now)]

\* service.py 46-101: the with block.  The storage's RLock is held from its
\* first line to its exit, every other access to the three maps takes the
\* same lock, and the block reads the clock once (in
\* get_idempotency_record): the block is one step.  cap bounds the store.
CreateBody(t, cap) ==
  /\ th[t].pc = "create_lock"
  /\ LET me == th[t]
         k == me.key.v
         \* 47-51: lookup (evicting an expired record), key conflict
         found == Truthy(me.key) /\ HasLiveRecord(_idempotency, k, clock)
         idem1 == IF Truthy(me.key) THEN IdempotencyAfterGet(_idempotency, k, clock)
                  ELSE _idempotency
         \* 58-60: cleanup, counter lookup (stored with count 0 when missing)
         day_key == DateOf(me.now)
         ck == <<me.customer_id, day_key>>
         rl1 == _get_or_create_rate_limit(
                  cleanup_rate_limits(_rate_limits, me.now), me.customer_id, day_key)
         \* 66-76: the tour
         id == Len(_tours) + 1
         tour == NewTour(id, me.property_id, me.customer_id, me.start_at, me.end_at, me.now)
     IN IF found /\ _idempotency[k].fingerprint # Fp(me)
        THEN /\ Leave(t, "CONFLICT", "idempotency", FALSE, NoTour)
             /\ _idempotency' = idem1
             /\ UNCHANGED <<_tours, _rate_limits, first_call>>
        ELSE IF found /\ _idempotency[k].tour_id \in DOMAIN _tours
        THEN \* 53-56: replay
             /\ Leave(t, "OK", "", FALSE, _tours[_idempotency[k].tour_id])
             /\ _idempotency' = idem1
             /\ UNCHANGED <<_tours, _rate_limits, first_call>>
        ELSE IF QuotaReached(rl1[ck])
        THEN \* 61-62
             /\ Leave(t, "RATE_LIMIT", "", FALSE, NoTour)
             /\ _idempotency' = idem1
             /\ _rate_limits' = rl1
             /\ UNCHANGED <<_tours, first_call>>
        ELSE IF HasOverlap(_tours, me.property_id, me.start_at, me.end_at)
        THEN \* 64
             /\ Leave(t, "CONFLICT", "overlap", FALSE, NoTour)
             /\ _idempotency' = idem1
             /\ _rate_limits' = rl1
             /\ UNCHANGED <<_tours, first_call>>
        ELSE \* 66-101: save the tour, count it, record the key, return
             /\ Len(_tours) < cap
             /\ _tours' = Append(_tours, tour)
             /\ _rate_limits' = With(rl1, ck, rl1[ck] + 1)
             /\ _idempotency' = IF Truthy(me.key) THEN With(idem1, k, NewRecord(me, id))
                                ELSE idem1
             /\ first_call' =
                  IF Truthy(me.key) /\ k \notin DOMAIN first_call
                  THEN With(first_call, k, [call |-> me, tour |-> tour,
                                            expires_at |-> Plus24h(me.now)])
                  ELSE first_call
             /\ Leave(t, "OK", "", TRUE, tour)
  /\ UNCHANGED <<clock, _lock>>

\* ------------------------------------------------------------- cancel_tour
\* service.py 135-147: the whole call is one with block on the same lock and
\* reads the clock once (in Tour.cancel): one step
CancelTour(t, id) ==
  /\ Serves(t)
  /\ LET call == [Idle EXCEPT !.op = "cancel", !.tour_id = id]
     IN IF id \notin DOMAIN _tours
        THEN /\ last' = Outcome(t, call, "NOT_FOUND", "", FALSE, NoTour, "")
             /\ _tours' = _tours
        ELSE /\ _tours' = [_tours EXCEPT ![id] = cancel(_tours[id], clock)]
             /\ last' = Outcome(t, call, "OK", "", FALSE, NoTour, _tours[id].status)
  /\ UNCHANGED <<clock, th, _idempotency, _rate_limits, first_call, _lock>>

\* -------------------------------------------------------------- list_tours
\* variant of _matches_filters that keeps the tours that start on the day
_matches_start_day(tour, property_id, date_filter) ==
  IF Truthy(property_id) /\ tour.property_id # property_id.v THEN FALSE
  ELSE IF date_filter.some /\ DateOf(tour.start_at) # date_filter.v THEN FALSE
       ELSE TRUE

\* service.py _matches_filters
_matches_filters(tour, property_id, date_filter) ==
  LET day_start == date_filter.v * TicksPerDay
      day_end == Plus24h(day_start)
  IN IF Truthy(property_id) /\ tour.property_id # property_id.v THEN FALSE
     ELSE IF date_filter.some
             /\ ~overlaps(tour.start_at, tour.end_at, day_start, day_end)
          THEN FALSE
          ELSE TRUE

\* list.sort(key=start_at, reverse=reverse) is stable in both directions:
\* the element at position a of ids comes before the one at position b when
\* its start_at sorts first, or sorts alike and a is the earlier position
SortByStartAt(ids, tours, reverse) ==
  LET key(a) == tours[ids[a]].start_at
      first(a, b) == \/ IF reverse THEN key(a) > key(b) ELSE key(a) < key(b)
                     \/ key(a) = key(b) /\ a < b
      rank(a) == Cardinality({b \in DOMAIN ids : first(b, a)})
  IN [j \in DOMAIN ids |-> ids[CHOOSE a \in DOMAIN ids : rank(a) = j - 1]]

\* seq[start_index:end_index] for indices >= 0
Slice(seq, start_index, end_index) ==
  LET lo == IF start_index < Len(seq) THEN start_index ELSE Len(seq)
      hi == IF end_index < Len(seq) THEN end_index ELSE Len(seq)
  IN SubSeq(seq, lo + 1, hi)

\* service.py 119: the ids of the tours that match, in the order of tours
Filtered(tours, property_id, date_filter) ==
  LET keep == {i \in DOMAIN tours :
                 _matches_filters(tours[i], property_id, date_filter)}
  IN [j \in 1..Cardinality(keep) |->
        tours[CHOOSE i \in keep : Cardinality({k \in keep : k < i}) = j - 1].id]

\* service.py 109-133: the snapshot is taken under the lock (storage.py
\* 31-33); the tours returned are the stored objects, named here by their ids
ListOutcome(t, call, q) ==
  LET filtered == Filtered(_tours, q.property_id, q.date_filter)
      ordered == SortByStartAt(filtered, _tours, q.sort.dash)
      start_index == (q.page - 1) * q.page_size
      end_index == start_index + q.page_size
  IN IF q.sort.field # "start_at"
     THEN [Outcome(t, call, "BAD_REQUEST", "sort", FALSE, NoTour, "")
             EXCEPT !.query = q]
     ELSE [Outcome(t, call, "OK", "", FALSE, NoTour, "")
             EXCEPT !.query = q,
                    !.items = Slice(ordered, start_index, end_index),
                    !.total = Len(ordered)]

ListTours(t, q) ==
  /\ Serves(t)
  /\ last' = ListOutcome(t, [Idle EXCEPT !.op = "list"], q)
  /\ UNCHANGED <<clock, store, th, first_call, _lock>>

\* --------------------------------------------------- the calls, step by step
\* The same calls with the lock explicit: one step per acquisition, per
\* nested storage method, per field assignment of Tour.cancel and per field
\* read of a caller that holds a returned tour.

\* variant of the lock that excludes nobody
CanEnterAlways(t) == TRUE

\* variant of the lock that is a plain Lock: its holder cannot enter again
CanEnterOnce(t) == _lock.owner = 0

\* RLock.acquire returns when the lock is free or held by the calling thread
CanEnter(t) == _lock.owner = 0 \/ _lock.owner = t

Acquired(t) == [owner |-> t, count |-> _lock.count + 1]

\* RLock.release: the last release of the owner frees the lock
Released(t) ==
  IF _lock.count > 1 THEN [_lock EXCEPT !.count = @ - 1] ELSE Unlocked

\* leaving a with block on storage.lock by return or raise
Exit(t, code, detail, created, ret) ==
  /\ Leave(t, code, detail, created, ret)
  /\ _lock' = Released(t)

Goto(t, pc) == th' = [th EXCEPT ![t].pc = pc]

\* the model's store is bounded: a create is begun while a tour may still be
\* saved, or when no other create is in flight and the customer's counter of
\* the day already refuses it
MayBegin(req, cap) ==
  LET creating == {u \in Threads : th[u].op = "create"}
      ck == <<req.customer_id, DateOf(clock)>>
  IN \/ Len(_tours) + Cardinality(creating) < cap
     \/ /\ creating = {}
        /\ ck \in DOMAIN _rate_limits
        /\ QuotaReached(_rate_limits[ck])

\* service.py 46: with self._storage.lock
CreateAcquire(t) ==
  /\ th[t].pc = "create_lock"
  /\ CanEnter(t)
  /\ _lock' = Acquired(t)
  /\ Goto(t, "create_idem")
  /\ UNCHANGED <<clock, store, last, first_call>>

\* service.py 47-56: get_idempotency_record, key conflict, get_tour, replay
CreateLookup(t) ==
  /\ th[t].pc = "create_idem"
  /\ Truthy(th[t].key) => CanEnter(t)
  /\ LET me == th[t]
         k == me.key.v
         found == Truthy(me.key) /\ HasLiveRecord(_idempotency, k, clock)
     IN /\ _idempotency' = IF Truthy(me.key)
                           THEN IdempotencyAfterGet(_idempotency, k, clock)
                           ELSE _idempotency
        /\ IF found /\ _idempotency[k].fingerprint # Fp(me)
           THEN Exit(t, "CONFLICT", "idempotency", FALSE, NoTour)
           ELSE IF found /\ _idempotency[k].tour_id \in DOMAIN _tours
           THEN Exit(t, "OK", "", FALSE, _tours[_idempotency[k].tour_id])
           ELSE Goto(t, "create_checks") /\ UNCHANGED <<last, _lock>>
  /\ UNCHANGED <<clock, _tours, _rate_limits, first_call>>

\* service.py 58-64: cleanup_rate_limits, the counter, the quota, the overlap
CreateChecks(t) ==
  /\ th[t].pc = "create_checks"
  /\ CanEnter(t)
  /\ LET me == th[t]
         rl1 == _get_or_create_rate_limit(
                  cleanup_rate_limits(_rate_limits, me.now),
                  me.customer_id, DateOf(me.now))
     IN /\ _rate_limits' = rl1
        /\ IF QuotaReached(rl1[<<me.customer_id, DateOf(me.now)>>])
           THEN Exit(t, "RATE_LIMIT", "", FALSE, NoTour)
           ELSE IF HasOverlap(_tours, me.property_id, me.start_at, me.end_at)
           THEN Exit(t, "CONFLICT", "overlap", FALSE, NoTour)
           ELSE Goto(t, "create_save") /\ UNCHANGED <<last, _lock>>
  /\ UNCHANGED <<clock, _tours, _idempotency, first_call>>

\* service.py 66-76: the tour is built and saved
CreateSave(t) ==
  /\ th[t].pc = "create_save"
  /\ CanEnter(t)
  /\ LET me == th[t]
         id == Len(_tours) + 1
     IN /\ _tours' = Append(_tours, NewTour(id, me.property_id, me.customer_id,
                                            me.start_at, me.end_at, me.now))
        /\ th' = [th EXCEPT ![t].pc = "create_count", ![t].tour_id = id]
  /\ UNCHANGED <<clock, _idempotency, _rate_limits, last, first_call, _lock>>

\* service.py 78-79: counter.increment(), upsert_rate_limit
CreateCount(t) ==
  /\ th[t].pc = "create_count"
  /\ CanEnter(t)
  /\ LET ck == <<th[t].customer_id, DateOf(th[t].now)>>
     IN _rate_limits' = With(_rate_limits, ck, _rate_limits[ck] + 1)
  /\ Goto(t, "create_record")
  /\ UNCHANGED <<clock, _tours, _idempotency, last, first_call, _lock>>

\* service.py 81-101: save_idempotency_record for a key, return
CreateRecord(t) ==
  /\ th[t].pc = "create_record"
  /\ Truthy(th[t].key) => CanEnter(t)
  /\ LET me == th[t]
         k == me.key.v
         tour == _tours[me.tour_id]
     IN /\ _idempotency' = IF Truthy(me.key)
                           THEN With(_idempotency, k, NewRecord(me, me.tour_id))
                           ELSE _idempotency
        /\ first_call' =
             IF Truthy(me.key) /\ k \notin DOMAIN first_call
             THEN With(first_call, k, [call |-> me, tour |-> tour,
                                       expires_at |-> Plus24h(me.now)])
             ELSE first_call
        /\ Exit(t, "OK", "", TRUE, tour)
  /\ UNCHANGED <<clock, _tours, _rate_limits>>

\* service.py 135: the call is made
CancelBegin(t, id) ==
  /\ Serves(t)
  /\ th' = [th EXCEPT ![t] = [Idle EXCEPT !.op = "cancel", !.pc = "cancel_lock",
                                          !.tour_id = id]]
  /\ UNCHANGED <<clock, store, last, first_call, _lock>>

\* service.py 136: with self._storage.lock
CancelAcquire(t) ==
  /\ th[t].pc = "cancel_lock"
  /\ CanEnter(t)
  /\ _lock' = Acquired(t)
  /\ Goto(t, "cancel_get")
  /\ UNCHANGED <<clock, store, last, first_call>>

\* service.py 137-140: get_tour, NotFoundError, previous_status
CancelGet(t) ==
  /\ th[t].pc = "cancel_get"
  /\ CanEnter(t)
  /\ IF th[t].tour_id \notin DOMAIN _tours
     THEN Exit(t, "NOT_FOUND", "", FALSE, NoTour)
     ELSE /\ th' = [th EXCEPT ![t].pc = "cancel_status",
                              ![t].seen = _tours[th[t].tour_id].status]
          /\ UNCHANGED <<last, _lock>>
  /\ UNCHANGED <<clock, store, first_call>>

\* models.py 25-26: the status test and the assignment of status
CancelStatus(t) ==
  /\ th[t].pc = "cancel_status"
  /\ IF _tours[th[t].tour_id].status # CANCELLED
     THEN /\ _tours' = [_tours EXCEPT ![th[t].tour_id].status = CANCELLED]
          /\ Goto(t, "cancel_updated_at")
     ELSE /\ _tours' = _tours
          /\ Goto(t, "cancel_save")
  /\ UNCHANGED <<clock, _idempotency, _rate_limits, last, first_call, _lock>>

\* models.py 27: the assignment of updated_at
CancelUpdatedAt(t) ==
  /\ th[t].pc = "cancel_updated_at"
  /\ _tours' = [_tours EXCEPT ![th[t].tour_id].updated_at = clock]
  /\ Goto(t, "cancel_save")
  /\ UNCHANGED <<clock, _idempotency, _rate_limits, last, first_call, _lock>>

\* service.py 142-147: save_tour of the object already stored, return
CancelSave(t) ==
  /\ th[t].pc = "cancel_save"
  /\ CanEnter(t)
  /\ last' = Outcome(t, th[t], "OK", "", FALSE, NoTour, th[t].seen)
  /\ th' = [th EXCEPT ![t] = Idle]
  /\ _lock' = Released(t)
  /\ UNCHANGED <<clock, store, first_call>>

\* main.py 51-52: the call is made
GetBegin(t, id) ==
  /\ Serves(t)
  /\ th' = [th EXCEPT ![t] = [Idle EXCEPT !.op = "get", !.pc = "get_lock",
                                          !.tour_id = id]]
  /\ UNCHANGED <<clock, store, last, first_call, _lock>>

\* service.py 103-107 and storage.py 23-25: the with block of
\* storage.get_tour; the value returned is the stored object itself, which
\* the caller holds by its id
GetTour(t) ==
  /\ th[t].pc = "get_lock"
  /\ CanEnter(t)
  /\ IF th[t].tour_id \notin DOMAIN _tours
     THEN Leave(t, "NOT_FOUND", "", FALSE, NoTour)
     ELSE Goto(t, "get_status") /\ last' = last
  /\ UNCHANGED <<clock, store, first_call, _lock>>

\* schemas.py from_domain: status is read from the object held
ReadStatus(t) ==
  /\ th[t].pc = "get_status"
  /\ th' = [th EXCEPT ![t].pc = "get_updated_at",
                      ![t].seen = _tours[th[t].tour_id].status]
  /\ UNCHANGED <<clock, store, last, first_call, _lock>>

\* schemas.py from_domain: updated_at is read last; the response is built
ReadUpdatedAt(t) ==
  /\ th[t].pc = "get_updated_at"
  /\ Leave(t, "OK", "", FALSE, [_tours[th[t].tour_id] EXCEPT !.status = th[t].seen])
  /\ UNCHANGED <<clock, store, first_call, _lock>>

\* main.py 57-60: the call is made
ListBegin(t, q) ==
  /\ Serves(t)
  /\ th' = [th EXCEPT ![t] = [Idle EXCEPT !.op = "list", !.pc = "list_lock",
                                          !.query = q]]
  /\ UNCHANGED <<clock, store, last, first_call, _lock>>

\* storage.py 31-33 and service.py 118-133: the snapshot is taken in the
\* with block of storage.list_tours; filter, sort and slice read fields that
\* are never assigned after construction
ListSnapshot(t) ==
  /\ th[t].pc = "list_lock"
  /\ CanEnter(t)
  /\ last' = ListOutcome(t, th[t], th[t].query)
  /\ th' = [th EXCEPT ![t] = Idle]
  /\ UNCHANGED <<clock, store, first_call, _lock>>

\* ------------------------------------------------------------------- clock
Tick ==
  /\ clock < MaxTime
  /\ clock' = clock + 1
  /\ UNCHANGED <<store, th, last, first_call, _lock>>

\* tour ids a client may ask to cancel (unknown while not yet stored)
TourIds == 1..MaxTours

\* clients book, retry and cancel
NextOf(R, C, cap) ==
  \/ \E t \in Threads, req \in R : CreateBegin(t, req)
  \/ \E t \in Threads : CreateBody(t, cap)
  \/ \E t \in Threads, id \in C : CancelTour(t, id)
  \/ Tick

\* clients only book
NextCreates(R, cap) ==
  \/ \E t \in Threads, req \in R : CreateBegin(t, req)
  \/ \E t \in Threads : CreateBody(t, cap)
  \/ Tick

Next == NextOf(Requests, TourIds, MaxTours)
Spec == Init /\ [][Next]_vars

NextIdem == NextOf(IdemRequests, TourIds, MaxTours)
SpecIdem == Init /\ [][NextIdem]_vars

NextQuota == NextCreates(QuotaRequests, DailyLimit)
SpecQuota == Init /\ [][NextQuota]_vars

NextSlots == NextCreates(SlotRequests, DailyLimit + 1)
SpecSlots == Init /\ [][NextSlots]_vars

\* one client books and cancels, one call at a time
NextSeq(R, C, cap) ==
  \/ \E req \in R : CreateBegin(1, req)
  \/ CreateBody(1, cap)
  \/ \E id \in C : CancelTour(1, id)
  \/ Tick

NextConflict == NextSeq(ConflictRequests, 1..DailyLimit, DailyLimit)
SpecConflict == Init /\ [][NextConflict]_vars

\* one client books, cancels the first tour and lists
NextList ==
  \/ \E req \in ListRequests : CreateBegin(1, req)
  \/ CreateBody(1, DailyLimit)
  \/ CancelTour(1, 1)
  \/ \E q \in ListQueries : ListTours(1, q)
  \/ Tick
SpecList == Init /\ [][NextList]_vars

\* the first tour may be cancelled
NextReplay == NextOf(ReplayRequests, {1}, DailyLimit)
SpecReplay == Init /\ [][NextReplay]_vars

\* steps of thread t that wait for the lock
Entering(t) ==
  CreateAcquire(t) \/ CancelAcquire(t) \/ GetTour(t) \/ ListSnapshot(t)

\* steps of thread t inside a with block or after it
Running(t) ==
  \/ CreateLookup(t) \/ CreateChecks(t) \/ CreateSave(t)
  \/ CreateCount(t) \/ CreateRecord(t)
  \/ CancelGet(t) \/ CancelStatus(t) \/ CancelUpdatedAt(t) \/ CancelSave(t)
  \/ ReadStatus(t) \/ ReadUpdatedAt(t)

\* clients book, cancel, get and list while the threads interleave
Calls(R, cap) ==
  \/ \E t \in Threads, req \in R : MayBegin(req, cap) /\ CreateBegin(t, req)
  \/ \E t \in Threads : CancelBegin(t, 1)
  \/ \E t \in Threads : GetBegin(t, 1)
  \/ \E t \in Threads : ListBegin(t, LockQuery)
  \/ \E t \in Threads : Entering(t)
  \/ \E t \in Threads : Running(t)

\* one booking is made and retried, while time passes
NextLock == Calls(LockRequests, MaxTours) \/ Tick
SpecLock == Init /\ [][NextLock]_vars

\* bookings up to the daily limit and beyond, within one instant
NextBusy == Calls(BusyRequests, DailyLimit)

\* fair scheduling: a thread that can run does run, and a thread that waits
\* for the lock gets it when it is free again and again
SpecLockFair ==
  /\ Init /\ [][NextBusy]_vars
  /\ \A t \in Threads : WF_vars(Running(t)) /\ SF_vars(Entering(t))

\* ================================================================== claims
Positions == DOMAIN _tours
Days == 0..DateOf(MaxTime)

\* the tours a customer created on a UTC day
CreatedOn(customer_id, day) ==
  {i \in Positions : /\ _tours[i].customer_id = customer_id
                     /\ DateOf(_tours[i].created_at) = day}

\* thread t runs the with block of its create_tour in this step
CreateReturns(t) == th[t].pc = "create_lock" /\ th'[t].pc = "idle"

\* C1: no two distinct BOOKED tours of one property have intervals that
\* overlap (a.start_at < b.end_at and b.start_at < a.end_at), in any state
\* reached by any interleaving of create_tour and cancel_tour calls.
C1_NoDoubleBooking ==
  \A i, j \in Positions :
    (/\ i # j
     /\ _tours[i].status = BOOKED /\ _tours[j].status = BOOKED
     /\ _tours[i].property_id = _tours[j].property_id)
    => ~(/\ _tours[i].start_at < _tours[j].end_at
         /\ _tours[j].start_at < _tours[i].end_at)

\* two bookings of one property stand side by side and an overlapping
\* request has just been refused
C1_Witness ==
  /\ \E i, j \in Positions :
       /\ i # j
       /\ _tours[i].status = BOOKED /\ _tours[j].status = BOOKED
       /\ _tours[i].property_id = _tours[j].property_id
  /\ last.op = "create" /\ last.code = "CONFLICT" /\ last.detail = "overlap"

\* C2: for every customer and UTC day, at most 3 tours were created by that
\* customer with created_at on that day, whatever the interleaving of creates
\* (also around a day change).
C2_QuotaHardCap ==
  \A c \in CustomerIds, d \in Days : Cardinality(CreatedOn(c, d)) <= DailyLimit

\* ---------------------------------------------------------------- C3 .. C5
\* the logical parameters of two calls are equal (instants compared in UTC)
SameParams(a, b) ==
  /\ a.property_id = b.property_id /\ a.customer_id = b.customer_id
  /\ a.start_at = b.start_at /\ a.end_at = b.end_at

\* thread t completes a create that carries a key used by an earlier
\* successful create
Retries(t) ==
  /\ CreateReturns(t)
  /\ Truthy(th[t].key)
  /\ th[t].key.v \in DOMAIN first_call

\* C3 as stated: every later create with key K and the parameters of the
\* first successful create with K returns the payload of the first call, all
\* fields included, with was_created = false.
C3_SamePayloadOnEveryReplay ==
  [][\A t \in Threads :
       (Retries(t) /\ SameParams(th[t], first_call[th[t].key.v].call))
       => /\ last'.code = "OK"
          /\ last'.created = FALSE
          /\ last'.ret = first_call[th[t].key.v].tour]_vars

\* C3, amended: while the first call's record has not expired (less than 24
\* hours after the first call read its now), every later create with key K
\* and the same parameters succeeds with was_created = false and returns the
\* first call's tour as it is stored now: same id and booking fields, and the
\* first payload exactly unless the tour was cancelled in between.
C3_ReplayWithinTtl ==
  [][\A t \in Threads :
       (/\ Retries(t)
        /\ SameParams(th[t], first_call[th[t].key.v].call)
        /\ clock < first_call[th[t].key.v].expires_at)
       => LET first == first_call[th[t].key.v].tour
          IN /\ last'.code = "OK"
             /\ last'.created = FALSE
             /\ last'.ret = _tours[first.id]
             /\ last'.ret.id = first.id
             /\ last'.ret.property_id = first.property_id
             /\ last'.ret.customer_id = first.customer_id
             /\ last'.ret.start_at = first.start_at
             /\ last'.ret.end_at = first.end_at
             /\ last'.ret.created_at = first.created_at
             /\ (last'.ret.status = BOOKED => last'.ret = first)
             /\ UNCHANGED store]_vars

\* a retry has returned the first call's tour after it was cancelled
C3_Witness ==
  /\ last.op = "create" /\ last.code = "OK" /\ last.created = FALSE
  /\ Truthy(last.key) /\ last.key.v \in DOMAIN first_call
  /\ last.ret.id = first_call[last.key.v].tour.id
  /\ last.ret.status = CANCELLED
  /\ last.ret # first_call[last.key.v].tour

\* C4: while the record of key K is alive, every create that carries K with
\* property_id, customer_id, start_at or end_at different from the first
\* successful create with K fails with a conflict and adds no tour.
C4_ChangedParamsConflict ==
  [][\A t \in Threads :
       (/\ Retries(t)
        /\ ~SameParams(th[t], first_call[th[t].key.v].call)
        /\ clock < first_call[th[t].key.v].expires_at)
       => /\ last'.code = "CONFLICT"
          /\ _tours' = _tours]_vars

\* the tour of the call that completed last had these logical parameters
FpOfTour(tour) ==
  _fingerprint(tour.property_id, tour.customer_id, tour.start_at, tour.end_at)

\* thread t completes a create that was in flight, with the same key and
\* fingerprint, when the last completed call created its tour
ConcurrentTwin(t) ==
  /\ CreateReturns(t)
  /\ last.op = "create" /\ last.code = "OK" /\ last.created
  /\ Truthy(last.key) /\ th[t].key = last.key
  /\ t \in last.peers
  /\ Fp(th[t]) = FpOfTour(last.ret)

ReplaysLast(t) ==
  /\ last'.code = "OK"
  /\ last'.created = FALSE
  /\ last'.ret.id = last.ret.id
  /\ UNCHANGED store

CounterOf(call) ==
  IF <<call.customer_id, DateOf(call.now)>> \in DOMAIN _rate_limits
  THEN _rate_limits[<<call.customer_id, DateOf(call.now)>>]
  ELSE 0

\* thread t completes a keyless create for the property of the tour that the
\* last completed call, also keyless, created, on an interval that overlaps it
SecondOfPair(t) ==
  /\ CreateReturns(t)
  /\ ~Truthy(th[t].key)
  /\ last.op = "create" /\ last.code = "OK" /\ last.created
  /\ ~Truthy(last.key)
  /\ last.ret.property_id = th[t].property_id
  /\ last.ret.start_at < th[t].end_at /\ th[t].start_at < last.ret.end_at

\* C6 as stated: of two keyless creates for overlapping intervals on one
\* property, the one that follows the successful one fails with a conflict.
C6_SecondGetsConflict ==
  [][\A t \in Threads :
       SecondOfPair(t) => (last'.code = "CONFLICT" /\ _tours' = _tours)]_vars

\* C6, amended: the one that follows the successful one fails and adds no
\* tour; it fails with a rate-limit error when its customer's counter for the
\* day of its now is already 3, and with a conflict otherwise.
C6_SecondFails ==
  [][\A t \in Threads :
       SecondOfPair(t)
       => /\ _tours' = _tours
          /\ last'.created = FALSE
          /\ IF CounterOf(th[t]) >= DailyLimit
             THEN last'.code = "RATE_LIMIT"
             ELSE last'.code = "CONFLICT" /\ last'.detail = "overlap"]_vars

\* a keyless create overlapping a booked tour of its property was refused
\* for quota while three tours stand
C6_Witness ==
  /\ last.op = "create" /\ last.code = "RATE_LIMIT" /\ ~Truthy(last.key)
  /\ last.taken
  /\ Len(_tours) = DailyLimit

\* some booked tour of the property overlaps the interval of the call
Taken(call) ==
  \E i \in Positions :
    /\ _tours[i].property_id = call.property_id
    /\ _tours[i].status = BOOKED
    /\ _tours[i].start_at < call.end_at /\ call.start_at < _tours[i].end_at

\* C7: a create that reads its now and completes within one UTC day, by a
\* customer with n tours created that day, on a free interval: it succeeds
\* when n < 3, and when n >= 3 it fails with a rate-limit error and adds no
\* tour.
C7_FourthIsRateLimited ==
  [][\A t \in Threads :
       (CreateReturns(t) /\ DateOf(th[t].now) = DateOf(clock) /\ ~Taken(th[t]))
       => LET n == Cardinality(CreatedOn(th[t].customer_id, DateOf(clock)))
          IN IF n < DailyLimit
             THEN /\ last'.code = "OK" /\ last'.created
                  /\ Len(_tours') = Len(_tours) + 1
                  /\ _tours'[Len(_tours')].customer_id = th[t].customer_id
                  /\ DateOf(_tours'[Len(_tours')].created_at) = DateOf(clock)
             ELSE /\ last'.code = "RATE_LIMIT"
                  /\ _tours' = _tours]_vars

\* the fourth create of the day on a free slot was refused for quota
C7_Witness ==
  /\ last.op = "create" /\ last.code = "RATE_LIMIT" /\ ~last.taken
  /\ Len(_tours) = DailyLimit
  /\ Cardinality(CreatedOn("c", DateOf(clock))) = DailyLimit
  /\ \A i \in Positions : _tours[i].status = BOOKED
  /\ \A t \in Threads : ~InFlight(t)

\* --------------------------------------------------------------- C8 .. C10
\* C8: a cancel_tour call on a tour that is already CANCELLED raises no error
\* and leaves the three maps, so the tour's status and updated_at, as the
\* first cancellation set them.
C8_SecondCancelIsNoOp ==
  [][(/\ th' = th /\ clock' = clock
      /\ last'.op = "cancel"
      /\ last'.previous_status = CANCELLED)
     => (last'.code = "OK" /\ UNCHANGED store)]_vars

\* a tour was cancelled again after the clock had moved on, and still
\* carries the time of its first cancellation
C8_Witness ==
  /\ last.op = "cancel" /\ last.code = "OK" /\ last.previous_status = CANCELLED
  /\ \E i \in Positions :
       /\ _tours[i].status = CANCELLED
       /\ _tours[i].created_at < _tours[i].updated_at
       /\ _tours[i].updated_at < clock
  /\ \A i \in Positions : _tours[i].status = CANCELLED

\* a create_tour call completes with an error in this step: in the with
\* block, or in the validation before it
CreateFailsIn(t) == CreateReturns(t) /\ last'.code # "OK"
ValidationFails ==
  th' = th /\ clock' = clock /\ last'.op = "create" /\ last'.code = "BAD_REQUEST"

\* C9 as stated: a create_tour that fails leaves the three maps identical.
C9_FailureLeavesStore ==
  [][((\E t \in Threads : CreateFailsIn(t)) \/ ValidationFails)
     => UNCHANGED store]_vars

\* what a failed create of thread t may do to the idempotency records: evict
\* the expired record of its own key, nothing else
EvictsOnlyOwnExpired(t) ==
  /\ \A x \in DOMAIN _idempotency' :
       x \in DOMAIN _idempotency /\ _idempotency'[x] = _idempotency[x]
  /\ \A x \in DOMAIN _idempotency \ DOMAIN _idempotency' :
       /\ Truthy(th[t].key) /\ x = th[t].key.v
       /\ _idempotency[x].expires_at <= clock

\* and to the counters: drop counters of days before its now, store a counter
\* of 0 for its customer and the day of its now; no count changes
PurgesAndZeroes(t) ==
  /\ \A x \in DOMAIN _rate_limits :
       \/ x \in DOMAIN _rate_limits' /\ _rate_limits'[x] = _rate_limits[x]
       \/ x \notin DOMAIN _rate_limits' /\ x[2] < DateOf(th[t].now)
  /\ \A x \in DOMAIN _rate_limits' \ DOMAIN _rate_limits :
       /\ x = <<th[t].customer_id, DateOf(th[t].now)>>
       /\ _rate_limits'[x] = 0

\* C9, amended: a create_tour that fails adds or changes no tour, writes no
\* idempotency record and increments no counter; a validation failure leaves
\* the three maps identical, a failure in the with block may evict the
\* expired record of its own key, purge counters of past days and store a
\* counter of 0 for its customer and day.
C9_FailureWritesNoBooking ==
  [][/\ ValidationFails => UNCHANGED store
     /\ \A t \in Threads :
          CreateFailsIn(t)
          => /\ _tours' = _tours
             /\ EvictsOnlyOwnExpired(t)
             /\ PurgesAndZeroes(t)]_vars

\* a create refused for overlap on a new day has purged the counter of the
\* day before and left a counter of 0
C9_Witness ==
  /\ last.op = "create" /\ last.code = "CONFLICT" /\ last.detail = "overlap"
  /\ Len(_tours) > 0
  /\ \A i \in Positions : DateOf(_tours[i].created_at) < DateOf(clock)
  /\ DOMAIN _rate_limits = {<<"c", DateOf(clock)>>}
  /\ _rate_limits[<<"c", DateOf(clock)>>] = 0

\* thread t completes a create whose key has a record that has not expired,
\* with the fingerprint of the call, for a tour that is stored
Replays(t) ==
  /\ CreateReturns(t)
  /\ Truthy(th[t].key)
  /\ th[t].key.v \in DOMAIN _idempotency
  /\ _idempotency[th[t].key.v].expires_at > clock
  /\ _idempotency[th[t].key.v].fingerprint = Fp(th[t])
  /\ _idempotency[th[t].key.v].tour_id \in DOMAIN _tours

\* C10: a replayed create returns the recorded tour with was_created = false
\* and leaves tours, idempotency records and counters unchanged, whatever the
\* customer's counter and whatever other tours are booked.
C10_ReplayTouchesNothing ==
  [][\A t \in Threads :
       Replays(t)
       => /\ last'.code = "OK"
          /\ last'.created = FALSE
          /\ last'.ret = _tours[_idempotency[th[t].key.v].tour_id]
          /\ UNCHANGED store]_vars

\* a replay has succeeded while its customer's counter for today is 3 and
\* another BOOKED tour of the property overlaps the replayed interval
C10_Witness ==
  /\ last.op = "create" /\ last.code = "OK" /\ last.created = FALSE
  /\ Truthy(last.key)
  /\ <<last.ret.customer_id, DateOf(clock)>> \in DOMAIN _rate_limits
  /\ _rate_limits[<<last.ret.customer_id, DateOf(clock)>>] = DailyLimit
  /\ \E i \in Positions :
       /\ i # last.ret.id
       /\ _tours[i].status = BOOKED
       /\ _tours[i].property_id = last.ret.property_id
       /\ _tours[i].start_at < last.ret.end_at
       /\ last.ret.start_at < _tours[i].end_at

\* -------------------------------------------------------------- C11 .. C12
\* the idempotency step lets the call of thread t through: it carries no
\* usable key, or its key has no record that is alive
PassesIdempotency(t) ==
  \/ ~Truthy(th[t].key)
  \/ th[t].key.v \notin DOMAIN _idempotency
  \/ _idempotency[th[t].key.v].expires_at <= clock

\* C11: a create that passes validation, the idempotency step and the quota
\* check fails with the overlap conflict if and only if some stored tour has
\* the same property_id, status BOOKED and an interval that overlaps the
\* requested one in the half-open sense; otherwise it is accepted.
C11_ExactConflictCondition ==
  [][\A t \in Threads :
       (/\ CreateReturns(t)
        /\ PassesIdempotency(t)
        /\ CounterOf(th[t]) < DailyLimit)
       => IF Taken(th[t])
          THEN /\ last'.code = "CONFLICT" /\ last'.detail = "overlap"
               /\ _tours' = _tours
          ELSE /\ last'.code = "OK" /\ last'.created
               /\ Len(_tours') = Len(_tours) + 1]_vars

\* an interval was booked again after its first booking was cancelled, next
\* to a booking that touches it
C11_Witness ==
  /\ last.op = "create" /\ last.code = "OK" /\ last.created
  /\ \E i, j, k \in Positions :
       /\ _tours[i].status = CANCELLED /\ _tours[j].status = BOOKED
       /\ _tours[k].status = BOOKED
       /\ last.ret.id = j /\ i < j
       /\ _tours[i].property_id = _tours[j].property_id
       /\ _tours[i].start_at = _tours[j].start_at
       /\ _tours[i].end_at = _tours[j].end_at
       /\ _tours[k].property_id = _tours[j].property_id
       /\ (_tours[k].end_at = _tours[j].start_at \/ _tours[j].end_at = _tours[k].start_at)

\* this step is a cancel_tour call
CancelStep == th' = th /\ clock' = clock /\ last'.op = "cancel"

\* C12: in every step, stored tours stay stored under their ids, a tour's
\* property_id, customer_id, start_at, end_at and created_at do not change, a
\* CANCELLED tour stays CANCELLED, and a tour changes only in a cancel_tour
\* step, which changes only its status and updated_at.
C12_LifecycleMonotonic ==
  [][/\ Len(_tours') >= Len(_tours)
     /\ \A i \in Positions :
          /\ _tours'[i].id = _tours[i].id
          /\ _tours'[i].property_id = _tours[i].property_id
          /\ _tours'[i].customer_id = _tours[i].customer_id
          /\ _tours'[i].start_at = _tours[i].start_at
          /\ _tours'[i].end_at = _tours[i].end_at
          /\ _tours'[i].created_at = _tours[i].created_at
          /\ (_tours[i].status = CANCELLED => _tours'[i] = _tours[i])
          /\ (_tours'[i] # _tours[i]
              => CancelStep /\ _tours'[i].status = CANCELLED)]_vars

\* a tour cancelled earlier is still stored and CANCELLED after it was
\* cancelled once more and a later booking was made
C12_Witness ==
  /\ Len(_tours) >= 2
  /\ _tours[1].status = CANCELLED
  /\ _tours[1].updated_at < _tours[2].created_at
  /\ last.op = "cancel" /\ last.code = "OK" /\ last.previous_status = CANCELLED
  /\ _tours[2].status = BOOKED

\* --------------------------------------------------------------------- C13
\* this step is a list_tours call that returns
ListReturns ==
  th' = th /\ clock' = clock /\ last'.op = "list" /\ last'.code = "OK"

\* the stored tours (of the property, when one is given) whose interval
\* meets day D: start_at < D+1 00:00 and D 00:00 < end_at
OnDay(q) ==
  {i \in Positions :
     /\ Truthy(q.property_id) => _tours[i].property_id = q.property_id.v
     /\ _tours[i].start_at < (q.date_filter.v + 1) * TicksPerDay
     /\ q.date_filter.v * TicksPerDay < _tours[i].end_at}

\* y comes before x in the order asked for (ties in insertion order)
ComesBefore(q, y, x) ==
  \/ /\ ~q.sort.dash /\ _tours[y].start_at < _tours[x].start_at
  \/ /\ q.sort.dash /\ _tours[y].start_at > _tours[x].start_at
  \/ /\ _tours[y].start_at = _tours[x].start_at /\ y < x

\* C13: list_tours with date_filter = D returns exactly the stored tours,
\* BOOKED or CANCELLED, of the property when given, whose interval meets day
\* D; total is their number, and the page is the slice
\* [(page-1)*page_size, (page-1)*page_size + page_size) of them ordered by
\* start_at in the direction the sort argument asks for.
C13_ListByDate ==
  [][(ListReturns /\ last'.query.date_filter.some)
     => LET q == last'.query
            M == OnDay(q)
            lo == (q.page - 1) * q.page_size
            left == Cardinality(M) - lo
        IN /\ last'.total = Cardinality(M)
           /\ Len(last'.items) =
                IF left > q.page_size THEN q.page_size
                ELSE IF left > 0 THEN left ELSE 0
           /\ \A j \in DOMAIN last'.items :
                /\ last'.items[j] \in M
                /\ Cardinality({y \in M : ComesBefore(q, y, last'.items[j])})
                     = lo + j - 1]_vars

\* a listing of day 1 has returned a cancelled tour that began on day 0 and
\* a tour that begins with day 1, and not the third tour stored
C13_Witness ==
  /\ last.op = "list" /\ last.code = "OK"
  /\ last.query.date_filter = Date(1)
  /\ Len(_tours) = 3
  /\ last.total = 2 /\ Len(last.items) = 2
  /\ _tours[last.items[1]].status = CANCELLED
  /\ DateOf(_tours[last.items[1]].start_at) = 0
  /\ _tours[last.items[2]].start_at = TicksPerDay

\* --------------------------------------------------------------------- C14
\* C14 as stated: the record stored under a key always carries the
\* fingerprint and the tour_id of the first record written for the key.
C14_RecordNeverChanges ==
  \A k \in DOMAIN _idempotency :
    /\ k \in DOMAIN first_call
    /\ _idempotency[k].fingerprint = Fp(first_call[k].call)
    /\ _idempotency[k].tour_id = first_call[k].tour.id

\* C14, amended: a stored record is left as it is by every step that finds
\* it alive; only a record that has expired (24 hours after the now of the
\* create that wrote it) is removed, and only then can a later create write
\* another fingerprint and tour_id under the key.
C14_RecordStableUntilExpiry ==
  [][\A k \in DOMAIN _idempotency :
       \/ k \in DOMAIN _idempotency' /\ _idempotency'[k] = _idempotency[k]
       \/ _idempotency[k].expires_at <= clock]_vars

\* a key whose first record expired now carries the record of a later tour
C14_Witness ==
  \E k \in DOMAIN _idempotency :
    /\ k \in DOMAIN first_call
    /\ _idempotency[k].tour_id # first_call[k].tour.id
    /\ _idempotency[k].created_at >= first_call[k].expires_at
    /\ last.op = "create" /\ last.created /\ last.key = Key(k)

\* --------------------------------------------------------------------- C15
\* day d is current for some create that has read its now and not yet
\* completed
CurrentForSome(d) ==
  \E t \in Threads : InFlight(t) /\ th[t].op = "create" /\ DateOf(th[t].now) = d

\* C15: the counter of a (customer, day) pair is neither removed nor
\* lowered by any step while the day is current for some in-flight create,
\* and a step changes it only by adding 1 in a create that saves a tour.
C15_CounterMonotonic ==
  [][\A x \in DOMAIN _rate_limits :
       CurrentForSome(x[2])
       => /\ x \in DOMAIN _rate_limits'
          /\ _rate_limits'[x] >= _rate_limits[x]
          /\ (_rate_limits'[x] # _rate_limits[x]
              => /\ _rate_limits'[x] = _rate_limits[x] + 1
                 /\ last'.op = "create" /\ last'.created
                 /\ Len(_tours') = Len(_tours) + 1)]_vars

\* -------------------------------------------------------------- C18 .. C19
\* the key of the call of thread t has a record that is alive
FindsRecord(t) ==
  /\ Truthy(th[t].key)
  /\ th[t].key.v \in DOMAIN _idempotency
  /\ _idempotency[th[t].key.v].expires_at > clock

\* C18: a create whose key has a live record with another fingerprint fails
\* with the idempotency conflict whatever the customer's counter; a create
\* that is let through by the idempotency step and finds its customer's
\* counter at 3 or more fails with the rate-limit error, also when its
\* interval overlaps a BOOKED tour of the property.
C18_OrderOfChecks ==
  [][\A t \in Threads :
       CreateReturns(t)
       => /\ (FindsRecord(t) /\ _idempotency[th[t].key.v].fingerprint # Fp(th[t]))
             => (/\ last'.code = "CONFLICT" /\ last'.detail = "idempotency"
                 /\ UNCHANGED store)
          /\ (PassesIdempotency(t) /\ CounterOf(th[t]) >= DailyLimit)
             => (last'.code = "RATE_LIMIT" /\ _tours' = _tours)]_vars

\* a key reused with other parameters was refused as such while the
\* customer's quota for the day was used up
C18_Witness ==
  /\ last.op = "create" /\ last.code = "CONFLICT" /\ last.detail = "idempotency"
  /\ Len(_tours) = DailyLimit
  /\ <<"c", DateOf(clock)>> \in DOMAIN _rate_limits
  /\ _rate_limits[<<"c", DateOf(clock)>>] = DailyLimit
  /\ last.taken

\* C19: every stored idempotency record names a stored tour, and its
\* fingerprint is the fingerprint of that tour's property_id, customer_id,
\* start_at and end_at.
C19_RecordNamesItsTour ==
  \A k \in DOMAIN _idempotency :
    /\ _idempotency[k].tour_id \in Positions
    /\ _idempotency[k].fingerprint = FpOfTour(_tours[_idempotency[k].tour_id])
    /\ _idempotency[k].key = k

\* the key's record was written a second time, for the second tour, after
\* the first tour was cancelled
C19_Witness ==
  /\ Len(_tours) = 2
  /\ _tours[1].status = CANCELLED
  /\ \E k \in DOMAIN _idempotency :
       /\ _idempotency[k].tour_id = 2
       /\ k \in DOMAIN first_call /\ first_call[k].tour.id = 1

\* -------------------------------------------------------------- C16 .. C17
\* the create of thread u has saved its tour and has not yet applied the
\* counter increment or the idempotency-record write
MidCommit(u) ==
  \/ th[u].pc = "create_count"
  \/ th[u].pc = "create_record" /\ Truthy(th[u].key)

\* thread t's get_tour or list_tours reads the store in this step
ReadsStore(t) ==
  /\ th[t].pc \in {"get_lock", "list_lock"}
  /\ th'[t].pc # th[t].pc

\* C16: no get_tour or list_tours reads the store between a create's
\* save_tour and that create's counter increment and idempotency-record
\* write.
C16_NoPartialVisibility ==
  [][\A t \in Threads : ReadsStore(t) => \A u \in Threads : ~MidCommit(u)]_vars

\* a get of the tour that a create has just saved waits while the counter
\* increment of that create is still to come
C16_Witness ==
  \E t, u \in Threads :
    /\ th[t].pc = "get_lock" /\ th[t].tour_id = Len(_tours)
    /\ th[u].pc = "create_count" /\ th[u].tour_id = Len(_tours)

\* C17: the record a get_tour caller observes is the whole pre-cancel
\* record (BOOKED, updated_at as created) or the whole post-cancel record
\* (CANCELLED, the updated_at the cancel wrote).
C17_NoTornRead ==
  (last.op = "get" /\ last.code = "OK")
  => \/ last.ret.status = BOOKED /\ last.ret.updated_at = last.ret.created_at
     \/ /\ last.ret.status = CANCELLED
        /\ \/ last.ret = _tours[last.ret.id]
           \/ \E u \in Threads : th[u].pc = "cancel_updated_at"
                                 /\ th[u].tour_id = last.ret.id

\* ---------------------------------------------------------------------- C20
\* C20: the lock is held at depth one by a create or cancel in its with
\* block and by nothing else, it is free when no call is in flight, and
\* under fair scheduling every call that is in flight completes.
C20_CallsComplete ==
  /\ [](_lock.count <= 1)
  /\ [](_lock.owner # 0 =>
          th[_lock.owner].pc \in
            {"create_idem", "create_checks", "create_save", "create_count",
             "create_record", "cancel_get", "cancel_status",
             "cancel_updated_at", "cancel_save"})
  /\ []((\A t \in Threads : ~InFlight(t)) => _lock = Unlocked)
  /\ \A t \in Threads : InFlight(t) ~> ~InFlight(t)

\* a create at the daily limit left its with block by the rate-limit error:
\* no call is in flight and the lock is free
C20_Witness ==
  /\ last.op = "create" /\ last.code = "RATE_LIMIT"
  /\ Len(_tours) = DailyLimit
  /\ \A t \in Threads : ~InFlight(t)
  /\ _lock = Unlocked

====
